---- MODULE Spec2Model ----
(***************************************************************************)
(* Model of the open-tacos Sirv media client (src/js/sirv/SirvClient.ts)   *)
(* and of the presentation utilities (computeClimbingPercentsAndColors,    *)
(* sanitizeName, debouncePromise).                                         *)
(*                                                                         *)
(* Four specifications share the module:                                   *)
(*   Spec          one invocation at a time of a Sirv client operation,    *)
(*                 split at its awaits (token request, API request)        *)
(*   SpecDebounce  the debounced wrapper with a clock and the timer queue  *)
(*   SpecPercents  computeClimbingPercentsAndColors on bounded inputs      *)
(*   SpecSanitize  sanitizeName on bounded strings                         *)
(***************************************************************************)
EXTENDS Integers, Sequences, FiniteSets, TLC

VARIABLES
    \* ---- Sirv client ----
    cfg,        \* SIRV_CONFIG: the four credentials, each a value or Null
    op,         \* the operation being invoked ("none" before the first one)
    argToken,   \* the token argument of the invocation (Null when omitted)
    argFlag,    \* per operation: isAdmin (getToken), fileList empty
                \* (getImagesByFilenames), uid == null (addUserIdFile)
    pc,         \* "idle" | "awaitToken" | "awaitApi" | "done"
    tok,        \* the local _t
    reqs,       \* requests issued by this invocation, in order
    resps,      \* transport outcomes received by this invocation, in order
    result,     \* how the invocation ended
    \* ---- debounce ----
    now,        \* the clock, in ms
    timerId,    \* the closure variable timerId (0: undefined)
    timers,     \* pending timeouts of the runtime
    calls,      \* invocations of debounced, in order
    execs,      \* executions of the wrapped fn, in order
    promises,   \* promises[i]: state of the promise returned to call i
    \* ---- computeClimbingPercentsAndColors ----
    climbs,     \* the argument
    typeToCount,\* the local accumulator, in insertion order
    pcOut,      \* done: whether the function has returned; value: what it returned
    \* ---- sanitizeName ----
    s,          \* the argument
    sOut        \* the returned string, or NotComputed

clientVars == <<cfg, op, argToken, argFlag, pc, tok, reqs, resps, result>>
debounceVars == <<now, timerId, timers, calls, execs, promises>>
percentVars == <<climbs, typeToCount, pcOut>>
sanitizeVars == <<s, sOut>>
vars == <<clientVars, debounceVars, percentVars, sanitizeVars>>

Null == "null"

(***************************************************************************)
(*                            Sirv client                                  *)
(***************************************************************************)

\* process.env values: set or not
Credential == {Null, "set"}

Configs ==
    [clientId : Credential, clientSecret : Credential,
     clientAdminId : Credential, clientAdminSecret : Credential]

\* the configuration every other specification runs under
FullConfig ==
    [clientId |-> "set", clientSecret |-> "set",
     clientAdminId |-> "set", clientAdminSecret |-> "set"]

MediaOps ==
    {"getUserImages", "getImagesByFilenames", "getFileInfo", "getUserFiles",
     "createUserDir", "upload", "remove", "addUserIdFile"}

Ops == MediaOps \cup {"getToken"}

\* what a caller may pass as token
CallerTokens == {Null, "callerToken"}

\* what the transport may answer: it throws, or it returns a response with a
\* status and a body that carries what the operation looks for (data.token,
\* an array data.hits) or not
Statuses == {200, 204, 205, 404}

Responses ==
    [threw : {FALSE}, status : Statuses, body : BOOLEAN]
        \cup {[threw |-> TRUE, status |-> 0, body |-> FALSE]}

statusText(status) ==
    CASE status = 200 -> "OK"
      [] status = 204 -> "No Content"
      [] status = 205 -> "Reset Content"
      [] status = 404 -> "Not Found"
      [] OTHER -> ""

\* `${res.status}`
statusString(status) ==
    CASE status = 200 -> "200"
      [] status = 204 -> "204"
      [] status = 205 -> "205"
      [] status = 404 -> "404"
      [] OTHER -> "0"

\* the error a throwing transport call rejects with
TransportError == <<"Network Error">>

validateTokenParamsIdOnly(params) == params.clientId # Null

_validateTokenParams(params) ==
    params.clientId # Null /\ params.clientSecret # Null

TokenParams(isAdmin) ==
    IF isAdmin
    THEN [clientId |-> cfg.clientAdminId, clientSecret |-> cfg.clientAdminSecret]
    ELSE [clientId |-> cfg.clientId, clientSecret |-> cfg.clientSecret]

\* which helper the operation calls: getAdminTokenIfNotExist or getTokenIfNotExist
UsesAdminToken(o) == o \in {"createUserDir", "upload", "remove", "addUserIdFile"}

\* the privilege getToken runs with in this invocation
IsAdmin(o, flag) == IF o = "getToken" THEN flag ELSE UsesAdminToken(o)

\* the argument the operation hands to its token helper
PassedToken(o, token) == IF o = "createUserDir" THEN Null ELSE token

IsNullishNever(t) == FALSE

\* _t == null / token != null
IsNullish(t) == t = Null

Endpoint(o) ==
    CASE o \in {"getUserImages", "getImagesByFilenames"} -> "/files/search"
      [] o = "getFileInfo" -> "/files/stat"
      [] o = "getUserFiles" -> "/files/readdir"
      [] o = "createUserDir" -> "/files/mkdir"
      [] o \in {"upload", "addUserIdFile"} -> "/files/upload"
      [] o = "remove" -> "/files/delete"
      [] OTHER -> "/token"

TokenRequest == [url |-> "/token", auth |-> <<>>]

\* Authorization: `bearer ${_t}`
ApiRequest(o, t) == [url |-> Endpoint(o), auth |-> <<"bearer ", t>>]

\* the success test of each operation on the API response
ApiOk(o, res) ==
    CASE o \in {"getUserImages", "getImagesByFilenames"} ->
            res.status = 200 /\ res.body
      [] o \in {"getFileInfo", "getUserFiles", "createUserDir"} ->
            res.status = 200
      [] OTHER -> res.status >= 200 /\ res.status <= 204

\* the value returned on success
OkValue(o) ==
    CASE o \in {"getUserImages", "getImagesByFilenames", "getFileInfo"} -> "media"
      [] o = "getUserFiles" -> Null
      [] o \in {"upload", "remove"} -> "filename"
      [] OTHER -> "true"

\* the message of the error thrown on an unsuccessful response
ErrMsg(o, res) ==
    CASE o = "getToken" ->
            <<"Sirv API.", "getToken", "() error", statusText(res.status)>>
      [] o = "getUserImages" ->
            <<"Sirv API.", "getUserImages", "() error", statusText(res.status)>>
      [] o = "getImagesByFilenames" ->
            <<"Sirv API.", "searchUserImage", "() error", statusText(res.status)>>
      [] o = "getFileInfo" ->
            <<"Sirv API.", "getFileInfo", "() error", statusText(res.status)>>
      [] o = "getUserFiles" ->
            <<"Sirv API.", "getUserFiles", "() error", statusText(res.status)>>
      [] o = "upload" ->
            <<"Image API ", "upload", "() failed.  Status: ", statusString(res.status)>>
      [] o = "remove" ->
            <<"Image API ", "delete", "() failed.  Status: ", statusString(res.status)>>
      [] OTHER -> <<>>

\* thrown by both token helpers
NoTokenMsg == <<"Sirv API.", "getUserImages", "(): unable to get a token">>

InTryApiOnly(o, stage) == o \in {"createUserDir", "addUserIdFile"} /\ stage = "api"

\* whether a throw at the given stage ("token" | "api") happens inside the
\* operation's try block
InTry(o, stage) ==
    \/ o = "addUserIdFile"
    \/ o = "createUserDir" /\ stage = "api"

Returned(v) == [kind |-> "return", value |-> v, msg |-> <<>>]
Thrown(m) == [kind |-> "throw", value |-> "", msg |-> m]
NoResult == [kind |-> "none", value |-> "", msg |-> <<>>]

\* an exception raised at the given stage: caught (log, return false) or
\* propagated to the caller
Raise(o, stage, m) == IF InTry(o, stage) THEN Returned("false") ELSE Thrown(m)

ClientInit ==
    /\ op = "none"
    /\ argToken = Null
    /\ argFlag = FALSE
    /\ pc = "idle"
    /\ tok = Null
    /\ reqs = <<>>
    /\ resps = <<>>
    /\ result = NoResult

\* the synchronous part of an invocation, up to its first await on the network
Invoke(o, token, flag) ==
    /\ pc \in {"idle", "done"}
    /\ op' = o
    /\ argToken' = token
    /\ argFlag' = flag
    /\ resps' = <<>>
    /\ IF o \in {"getImagesByFilenames", "addUserIdFile"} /\ flag
       THEN \* empty fileList / uid == null: early return
            /\ pc' = "done"
            /\ tok' = Null
            /\ reqs' = <<>>
            /\ result' = IF o = "addUserIdFile" THEN Returned("false")
                                                ELSE Returned("media")
       ELSE IF o # "getToken" /\ ~IsNullish(PassedToken(o, token))
       THEN \* the helper returns the caller's token; the API request goes out
            /\ pc' = "awaitApi"
            /\ tok' = PassedToken(o, token)
            /\ reqs' = <<ApiRequest(o, PassedToken(o, token))>>
            /\ result' = NoResult
       ELSE IF ~_validateTokenParams(TokenParams(IsAdmin(o, flag)))
       THEN \* getToken returns undefined without a request
            /\ pc' = "done"
            /\ tok' = Null
            /\ reqs' = <<>>
            /\ result' = IF o = "getToken" THEN Returned("undefined")
                                           ELSE Raise(o, "token", NoTokenMsg)
       ELSE /\ pc' = "awaitToken"
            /\ tok' = Null
            /\ reqs' = <<TokenRequest>>
            /\ result' = NoResult
    /\ UNCHANGED <<cfg, debounceVars, percentVars, sanitizeVars>>

\* the continuation after the await of client.post('/token')
TokenResponse(res) ==
    /\ pc = "awaitToken"
    /\ resps' = Append(resps, res)
    /\ IF res.threw
       THEN /\ pc' = "done"
            /\ result' = Raise(op, "token", TransportError)
            /\ UNCHANGED <<tok, reqs>>
       ELSE IF res.status # 200
       THEN /\ pc' = "done"
            /\ result' = Raise(op, "token", ErrMsg("getToken", res))
            /\ UNCHANGED <<tok, reqs>>
       ELSE LET t == IF res.body THEN "serverToken" ELSE Null IN
            IF op = "getToken"
            THEN /\ pc' = "done"
                 /\ result' = Returned(IF res.body THEN t ELSE "undefined")
                 /\ UNCHANGED <<tok, reqs>>
            ELSE IF IsNullish(t)
            THEN /\ pc' = "done"
                 /\ result' = Raise(op, "token", NoTokenMsg)
                 /\ UNCHANGED <<tok, reqs>>
            ELSE /\ pc' = "awaitApi"
                 /\ tok' = t
                 /\ reqs' = Append(reqs, ApiRequest(op, t))
                 /\ UNCHANGED result
    /\ UNCHANGED <<cfg, op, argToken, argFlag, debounceVars, percentVars, sanitizeVars>>

\* the continuation after the await of the API request
ApiResponse(res) ==
    /\ pc = "awaitApi"
    /\ resps' = Append(resps, res)
    /\ pc' = "done"
    /\ result' =
         IF res.threw THEN Raise(op, "api", TransportError)
         ELSE IF ApiOk(op, res) THEN Returned(OkValue(op))
         ELSE IF op \in {"createUserDir", "addUserIdFile"} THEN Returned("false")
         ELSE Thrown(ErrMsg(op, res))
    /\ UNCHANGED <<cfg, op, argToken, argFlag, tok, reqs,
                   debounceVars, percentVars, sanitizeVars>>

(***************************************************************************)
(*                         debouncePromise                                 *)
(***************************************************************************)

\* debouncePromise(..., 300)
Delay == 300

MaxCalls == 3
MaxTime == 1000

\* what the clock may advance by between two events
Steps == {Delay \div 3, Delay - 1}

\* the arguments of an invocation
Items == {"a", "b"}

Pending == <<"pending">>
Resolved(v) == <<"resolved", v>>

\* the wrapped function: async (items) => await Promise.resolve(items)
fn(items) == items

ClearTimeoutNoop(ts, id) == ts

\* clearTimeout(timerId): unknown ids (undefined, fired, cleared) are ignored
ClearTimeout(ts, id) == {t \in ts : t.id # id}

SetTimeoutNoDelay(ts, id, args, time) ==
    ts \cup {[id |-> id, deadline |-> now, args |-> args]}

\* setTimeout(() => resolve(fn(...args)), time)
SetTimeout(ts, id, args, time) ==
    ts \cup {[id |-> id, deadline |-> now + time, args |-> args]}

DebounceInit ==
    /\ now = 0
    /\ timerId = 0
    /\ timers = {}
    /\ calls = <<>>
    /\ execs = <<>>
    /\ promises = <<>>

\* debounced(...args): clearTimeout, then the promise executor runs
\* synchronously and schedules the new timer
Debounced(args) ==
    /\ Len(calls) < MaxCalls
    /\ LET id == Len(calls) + 1 IN
         /\ timers' = SetTimeout(ClearTimeout(timers, timerId), id, args, Delay)
         /\ timerId' = id
    /\ calls' = Append(calls, [time |-> now, args |-> args])
    /\ promises' = Append(promises, Pending)
    /\ UNCHANGED <<now, execs, clientVars, percentVars, sanitizeVars>>

\* the runtime runs a due timer callback: () => resolve(fn(...args)).
\* A timer never runs before its deadline; it may run late.
TimerFire(t) ==
    /\ t \in timers
    /\ now >= t.deadline
    /\ timers' = timers \ {t}
    /\ execs' = Append(execs, [time |-> now, args |-> t.args, call |-> t.id])
    /\ promises' = [promises EXCEPT ![t.id] = Resolved(fn(t.args))]
    /\ UNCHANGED <<now, timerId, calls, clientVars, percentVars, sanitizeVars>>

Advance(d) ==
    /\ now + d <= MaxTime
    /\ now' = now + d
    /\ UNCHANGED <<timerId, timers, calls, execs, promises,
                   clientVars, percentVars, sanitizeVars>>

(***************************************************************************)
(*                 computeClimbingPercentsAndColors                        *)
(***************************************************************************)

MaxClimbs == 2

Disciplines == {"sport", "trad", "boulder"}

NotComputed == <<"not computed">>

\* the key orders a record's type object may have: the declaration order of
\* the disciplines or its reverse
KeyOrders == {<<"sport", "trad", "boulder">>, <<"boulder", "trad", "sport">>}

\* the [key, value] pairs of a type object holding the keys K in the order o
\* with the values v
Entries(o, K, v) ==
    LET ks == SelectSeq(o, LAMBDA k : k \in K) IN
    [i \in 1..Len(ks) |-> [key |-> ks[i], val |-> v[ks[i]]]]

\* climb.type as Object.entries sees it: [key, value] pairs in the object's
\* own key order, keys distinct, any subset of the disciplines present
ClimbTypes ==
    {Entries(o, K, v) :
        o \in KeyOrders, K \in SUBSET Disciplines, v \in [Disciplines -> BOOLEAN]}

\* ClimbTypeToColor[key] of ./constants
ClimbTypeToColor(key) == <<"color of", key>>

HasKey(acc, key) == \E i \in 1..Len(acc) : acc[i].key = key

\* the reducer body: one [key, discipline] entry folded into acc
CountEntry(acc, e) ==
    IF ~e.val THEN acc
    ELSE IF HasKey(acc, e.key)
    THEN [i \in 1..Len(acc) |->
            IF acc[i].key = e.key THEN [acc[i] EXCEPT !.count = @ + 1] ELSE acc[i]]
    ELSE Append(acc, [key |-> e.key, count |-> 1])

\* Object.entries(type).reduce(reducer, typeToCount)
RECURSIVE ReduceType(_, _)
ReduceType(acc, type) ==
    IF type = <<>> THEN acc
    ELSE ReduceType(CountEntry(acc, Head(type)), Tail(type))

\* climbs.forEach(...)
RECURSIVE CountAll(_, _)
CountAll(acc, cs) ==
    IF cs = <<>> THEN acc
    ELSE CountAll(ReduceType(acc, Head(cs)), Tail(cs))

\* counts.reduce(reducer, 0)
RECURSIVE SumCounts(_)
SumCounts(acc) ==
    IF acc = <<>> THEN 0 ELSE Head(acc).count + SumCounts(Tail(acc))

TotalClimbsPerRecord(acc, cs) == Len(cs)

\* totalClimbs
TotalClimbs(acc, cs) == SumCounts(acc)

(* JavaScript numbers are IEEE-754 doubles: 53 significant bits, results     *)
(* rounded to nearest, ties to even.  A double is kept as [m, e], the value  *)
(* m * 2^e with m a natural number of exactly 53 bits (or zero).  Naturals   *)
(* wider than 31 bits are little-endian sequences of 15-bit limbs.           *)
Base == 2^15
Precision == 53

RECURSIVE BigNorm(_)
BigNorm(a) ==
    IF a = <<>> THEN a
    ELSE IF a[Len(a)] = 0 THEN BigNorm(SubSeq(a, 1, Len(a) - 1))
    ELSE a

RECURSIVE BigFromInt(_)
BigFromInt(n) ==
    IF n = 0 THEN <<>> ELSE <<n % Base>> \o BigFromInt(n \div Base)

RECURSIVE BigMulCarry(_, _, _)
BigMulCarry(a, k, carry) ==
    IF a = <<>> THEN BigFromInt(carry)
    ELSE LET v == Head(a) * k + carry IN
         <<v % Base>> \o BigMulCarry(Tail(a), k, v \div Base)

\* a * k for 0 <= k < Base
BigMulSmall(a, k) == BigNorm(BigMulCarry(a, k, 0))

RECURSIVE BigAddCarry(_, _, _)
BigAddCarry(a, b, carry) ==
    IF a = <<>> /\ b = <<>> THEN BigFromInt(carry)
    ELSE LET x == IF a = <<>> THEN 0 ELSE Head(a)
             y == IF b = <<>> THEN 0 ELSE Head(b)
             v == x + y + carry
         IN  <<v % Base>> \o BigAddCarry(IF a = <<>> THEN a ELSE Tail(a),
                                         IF b = <<>> THEN b ELSE Tail(b),
                                         v \div Base)

BigAdd(a, b) == BigNorm(BigAddCarry(a, b, 0))

RECURSIVE BigSubBorrow(_, _, _)
BigSubBorrow(a, b, borrow) ==
    IF a = <<>> THEN <<>>
    ELSE LET y == IF b = <<>> THEN 0 ELSE Head(b)
             v == Head(a) - y - borrow
         IN  <<v % Base>> \o BigSubBorrow(Tail(a),
                                          IF b = <<>> THEN b ELSE Tail(b),
                                          IF v < 0 THEN 1 ELSE 0)

\* a - b for a >= b
BigSub(a, b) == BigNorm(BigSubBorrow(a, b, 0))

\* -1, 0, 1 as a < b, a = b, a > b (both normalised)
RECURSIVE BigCmp(_, _)
BigCmp(a, b) ==
    IF Len(a) # Len(b) THEN (IF Len(a) < Len(b) THEN -1 ELSE 1)
    ELSE IF a = <<>> THEN 0
    ELSE IF a[Len(a)] # b[Len(b)] THEN (IF a[Len(a)] < b[Len(b)] THEN -1 ELSE 1)
    ELSE BigCmp(SubSeq(a, 1, Len(a) - 1), SubSeq(b, 1, Len(b) - 1))

\* |a - b|
BigDist(a, b) == IF BigCmp(a, b) >= 0 THEN BigSub(a, b) ELSE BigSub(b, a)

\* quotient and remainder of a by k, 0 < k < Base
RECURSIVE BigDivSmall(_, _)
BigDivSmall(a, k) ==
    IF a = <<>> THEN [q |-> <<>>, r |-> 0]
    ELSE LET h == BigDivSmall(Tail(a), k)
             cur == h.r * Base + Head(a)
         IN  [q |-> <<cur \div k>> \o h.q, r |-> cur % k]

\* a * 2^bits
BigShl(a, bits) ==
    BigMulSmall([i \in 1..(bits \div 15) |-> 0] \o a, 2^(bits % 15))

RECURSIVE BitLen(_)
BitLen(n) == IF n = 0 THEN 0 ELSE 1 + BitLen(n \div 2)

BigBitLen(a) == IF a = <<>> THEN 0 ELSE 15 * (Len(a) - 1) + BitLen(a[Len(a)])

BigIsOdd(a) == a # <<>> /\ a[1] % 2 = 1

\* the double nearest to q * 2^e (plus a non-zero fraction below q's unit when
\* sticky), ties to even; q has at most Precision + 14 bits
RoundToDouble(q, sticky, e) ==
    LET sh == BigBitLen(q) - Precision IN
    IF q = <<>> THEN [m |-> <<>>, e |-> 0]
    ELSE IF sh <= 0 THEN [m |-> BigShl(q, -sh), e |-> e + sh]
    ELSE LET d == BigDivSmall(q, 2^sh)
             half == 2^(sh - 1)
             up == d.r > half \/ (d.r = half /\ (sticky \/ BigIsOdd(d.q)))
             m == IF up THEN BigAdd(BigNorm(d.q), <<1>>) ELSE BigNorm(d.q)
         IN  IF BigBitLen(m) > Precision
             THEN [m |-> BigNorm(BigDivSmall(m, 2).q), e |-> e + sh + 1]
             ELSE [m |-> m, e |-> e + sh]

\* count / total in doubles, for 0 < count <= total < Base
FloatDiv(count, total) ==
    LET d == BigDivSmall(BigShl(BigFromInt(count), 60), total) IN
    RoundToDouble(BigNorm(d.q), d.r # 0, -60)

\* x * k in doubles, for a natural k < 2^14
FloatMulSmall(x, k) == RoundToDouble(BigMulSmall(x.m, k), FALSE, x.e)

\* (count / totalClimbs) * 100
Percent(count, total) == FloatMulSmall(FloatDiv(count, total), 100)

computeClimbingPercentsAndColors(cs) ==
    LET acc == CountAll(<<>>, cs)
        totalClimbs == TotalClimbs(acc, cs)
    IN  [percents |-> [i \in 1..Len(acc) |-> Percent(acc[i].count, totalClimbs)],
         colors |-> [i \in 1..Len(acc) |-> ClimbTypeToColor(acc[i].key)]]

PercentsInit ==
    /\ climbs = <<>>
    /\ typeToCount = <<>>
    /\ pcOut = [done |-> FALSE, value |-> [percents |-> <<>>, colors |-> <<>>]]

\* the caller assembles the argument
AddClimb(type) ==
    /\ ~pcOut.done
    /\ Len(climbs) < MaxClimbs
    /\ climbs' = Append(climbs, type)
    /\ UNCHANGED <<typeToCount, pcOut, clientVars, debounceVars, sanitizeVars>>

Compute ==
    /\ ~pcOut.done
    /\ typeToCount' = CountAll(<<>>, climbs)
    /\ pcOut' = [done |-> TRUE, value |-> computeClimbingPercentsAndColors(climbs)]
    /\ UNCHANGED <<climbs, clientVars, debounceVars, sanitizeVars>>

(***************************************************************************)
(*                            sanitizeName                                 *)
(***************************************************************************)

MaxLen == 4

\* a string is a sequence of characters of this alphabet
Chars == {"(", ")", " ", "0", "1", "-", ":", "a", "."}

IsDigit(c) == c \in {"0", "1"}          \* \d
IsNonZero(c) == c = "1"                 \* [1-9]
IsLetter(c) == c = "a"                  \* [a-zA-Z]
IsSep(c) == c \in {"-", ":"}            \* [-:]

At(str, p) == IF p >= 1 /\ p <= Len(str) THEN str[p] ELSE "EOS"

\* number of consecutive spaces from position p on ( *, greedy)
RECURSIVE Spaces(_, _)
Spaces(str, p) == IF At(str, p) = " " THEN 1 + Spaces(str, p + 1) ELSE 0

\* ^(\(.{1,3}\) *) : the length matched at the start of the string, 0 if none.
\* .{1,3} is greedy: the longest k with a ")" right after it wins
Alt1Len(str, p) ==
    IF p # 1 \/ At(str, 1) # "(" THEN 0
    ELSE LET K == {k \in 1..3 : At(str, k + 2) = ")"} IN
         IF K = {} THEN 0
         ELSE LET k == CHOOSE x \in K : \A y \in K : y <= x IN
              k + 2 + Spaces(str, k + 3)

\* ((\d?[1-9]|[1-9]0)[-:]) at position p
Alt2Len(str, p) ==
    IF IsDigit(At(str, p)) /\ IsNonZero(At(str, p + 1)) /\ IsSep(At(str, p + 2)) THEN 3
    ELSE IF IsNonZero(At(str, p)) /\ IsSep(At(str, p + 1)) THEN 2
    ELSE IF IsNonZero(At(str, p)) /\ At(str, p + 1) = "0" /\ IsSep(At(str, p + 2)) THEN 3
    ELSE 0

\* [a-zA-Z]{1,2}\. at position p
Alt3Len(str, p) ==
    IF IsLetter(At(str, p)) /\ IsLetter(At(str, p + 1)) /\ At(str, p + 2) = "." THEN 3
    ELSE IF IsLetter(At(str, p)) /\ At(str, p + 1) = "." THEN 2
    ELSE 0

\* the regular expression tried at position p: the alternatives in order; the
\* ^ belongs to the first alternative only
MatchLenAt(str, p) ==
    IF Alt1Len(str, p) > 0 THEN Alt1Len(str, p)
    ELSE IF Alt2Len(str, p) > 0 THEN Alt2Len(str, p)
    ELSE Alt3Len(str, p)

\* s.replace(re, ''): the leftmost match is removed, once
sanitizeName(str) ==
    LET P == {p \in 1..Len(str) : MatchLenAt(str, p) > 0} IN
    IF P = {} THEN str
    ELSE LET p == CHOOSE x \in P : \A y \in P : x <= y IN
         SubSeq(str, 1, p - 1) \o SubSeq(str, p + MatchLenAt(str, p), Len(str))

SanitizeInit ==
    /\ s = <<>>
    /\ sOut = NotComputed

\* the caller assembles the argument
TypeChar(c) ==
    /\ sOut = NotComputed
    /\ Len(s) < MaxLen
    /\ s' = Append(s, c)
    /\ UNCHANGED <<sOut, clientVars, debounceVars, percentVars>>

Sanitize ==
    /\ sOut = NotComputed
    /\ sOut' = sanitizeName(s)
    /\ UNCHANGED <<s, clientVars, debounceVars, percentVars>>

(***************************************************************************)
(*                          Specifications                                 *)
(***************************************************************************)

Init ==
    /\ cfg \in Configs
    /\ ClientInit /\ DebounceInit /\ PercentsInit /\ SanitizeInit

Next ==
    \/ \E o \in Ops, token \in CallerTokens, flag \in BOOLEAN : Invoke(o, token, flag)
    \/ \E res \in Responses : TokenResponse(res)
    \/ \E res \in Responses : ApiResponse(res)

Spec == Init /\ [][Next]_vars

InitOthers ==
    /\ cfg = FullConfig
    /\ ClientInit /\ DebounceInit /\ PercentsInit /\ SanitizeInit

NextDebounce ==
    \/ \E args \in Items : Debounced(args)
    \/ \E t \in timers : TimerFire(t)
    \/ \E d \in Steps : Advance(d)

SpecDebounce == InitOthers /\ [][NextDebounce]_vars

NextPercents ==
    \/ \E type \in ClimbTypes : AddClimb(type)
    \/ Compute

SpecPercents == InitOthers /\ [][NextPercents]_vars

NextSanitize ==
    \/ \E c \in Chars : TypeChar(c)
    \/ Sanitize

SpecSanitize == InitOthers /\ [][NextSanitize]_vars

(***************************************************************************)
(*                     Properties of the Sirv client                       *)
(***************************************************************************)

Last(seq) == seq[Len(seq)]

IsTokenRequest(r) == r.url = "/token"

\* both halves of the credential pair getToken(isAdmin) selects are set
PairSet(isAdmin) ==
    IF isAdmin
    THEN cfg.clientAdminId # Null /\ cfg.clientAdminSecret # Null
    ELSE cfg.clientId # Null /\ cfg.clientSecret # Null

\* C1: for every Media Client operation, when the caller supplies a non-null
\* token, no request goes to /token and the Authorization header of the API
\* request carries exactly the supplied token.
C1_SuppliedTokenUsed ==
    (op \in MediaOps /\ argToken # Null) =>
        \A i \in 1..Len(reqs) :
            /\ ~IsTokenRequest(reqs[i])
            /\ reqs[i].auth = <<"bearer ", argToken>>

\* C2: getToken(isAdmin) returns undefined and issues no request whenever a
\* half of the selected credential pair is unset; it contacts /token only
\* when both halves are set.
C2_GetTokenFailFast ==
    op = "getToken" =>
        /\ ~PairSet(argFlag) =>
              /\ reqs = <<>>
              /\ pc = "done"
              /\ result = Returned("undefined")
        /\ reqs # <<>> => PairSet(argFlag)

\* C2 witness: a finished getToken() whose client id is set and whose client
\* secret is not
C2_Witness ==
    /\ op = "getToken" /\ pc = "done" /\ ~argFlag
    /\ cfg.clientId # Null /\ cfg.clientSecret = Null
    /\ result.value = "undefined"

\* C3: createUserDir never propagates an exception: whenever a remote call
\* made on its behalf fails (also when no admin token can be obtained) it
\* returns false; it returns true only when the mkdir response has status 200.
C3_CreateUserDirNeverThrows ==
    (op = "createUserDir" /\ pc = "done") =>
        /\ result.kind = "return"
        /\ result.value = "true" =>
              /\ Len(resps) = Len(reqs) /\ resps # <<>>
              /\ Last(reqs).url = "/files/mkdir"
              /\ ~Last(resps).threw /\ Last(resps).status = 200

\* the upload request of addUserIdFile was answered with a status in 200..204
UploadSucceeded ==
    /\ reqs # <<>> /\ Len(resps) = Len(reqs)
    /\ Last(reqs).url = "/files/upload"
    /\ ~Last(resps).threw
    /\ Last(resps).status \in 200..204

\* C4: addUserIdFile never throws: it returns true exactly when a token was
\* resolved and the upload response status is in 200..204, and false in every
\* other case; with a null uid it makes no request at all.
C4_AddUserIdFileNeverThrows ==
    (op = "addUserIdFile" /\ pc = "done") =>
        /\ result.kind = "return"
        /\ result.value \in {"true", "false"}
        /\ result.value = "true" <=> (tok # Null /\ UploadSucceeded)
        /\ argFlag => reqs = <<>>

\* C4 witness: addUserIdFile ended false because the token request threw
C4_Witness ==
    /\ op = "addUserIdFile" /\ pc = "done"
    /\ Len(reqs) = 1 /\ IsTokenRequest(reqs[1])
    /\ Len(resps) = 1 /\ resps[1].threw
    /\ result = Returned("false")

HardOps ==
    {"getToken", "getUserImages", "getImagesByFilenames", "getFileInfo",
     "getUserFiles", "upload", "remove"}

Embeds(msg, part) == \E i \in 1..Len(msg) : msg[i] = part

\* C5: every hard-failure operation that fails throws an error whose message
\* embeds the name of the operation that was invoked and the transport status
\* text of the failing response.
C5_ErrorNamesOperationAndStatusText ==
    (op \in HardOps /\ pc = "done" /\ result.kind = "throw") =>
        /\ Embeds(result.msg, op)
        /\ (resps # <<>> /\ ~Last(resps).threw) =>
              Embeds(result.msg, statusText(Last(resps).status))

\* the invocation returned before resolving a token (empty fileList, null uid)
EarlyReturn == argFlag /\ op \in {"getImagesByFilenames", "addUserIdFile"}

\* token acquisition yielded nothing or failed
TokenAcquisitionFailed ==
    /\ ~EarlyReturn
    /\ \/ reqs = <<>>
       \/ /\ resps # <<>>
          /\ resps[1].threw \/ resps[1].status # 200 \/ ~resps[1].body

\* C9: in an invocation of a Media Client operation without a caller-supplied
\* token, at most one /token request is issued, followed by at most one API
\* request; the API request is issued only after a token was obtained; when
\* token acquisition yields nothing or fails, no API request is issued and the
\* failure surfaces.
C9_NoRetryTokenFirst ==
    (op \in MediaOps /\ argToken = Null) =>
        /\ Cardinality({i \in 1..Len(reqs) : IsTokenRequest(reqs[i])}) <= 1
        /\ Cardinality({i \in 1..Len(reqs) : ~IsTokenRequest(reqs[i])}) <= 1
        /\ \A i \in 1..Len(reqs) : ~IsTokenRequest(reqs[i]) =>
              /\ i = 2 /\ IsTokenRequest(reqs[1])
              /\ resps # <<>>
              /\ ~resps[1].threw /\ resps[1].status = 200 /\ resps[1].body
              /\ reqs[i].auth = <<"bearer ", "serverToken">>
        /\ (pc = "done" /\ TokenAcquisitionFailed) =>
              /\ \A i \in 1..Len(reqs) : IsTokenRequest(reqs[i])
              /\ Len(resps) = Len(reqs)
              /\ \/ result.kind = "throw"
                 \/ op = "addUserIdFile" /\ result = Returned("false")

\* C9 witness: a finished invocation without a token argument that issued the
\* token request and then the API request
C9_Witness ==
    /\ op \in MediaOps /\ argToken = Null /\ pc = "done"
    /\ Len(reqs) = 2 /\ Len(resps) = 2

(***************************************************************************)
(*                     Properties of debouncePromise                       *)
(***************************************************************************)

\* every invocation so far arrived less than the delay after the previous one
IsBurst ==
    \A i \in 2..Len(calls) : calls[i].time - calls[i - 1].time < Delay

\* C6: for a sequence of invocations each arriving less than the delay after
\* the previous one, the wrapped function executes exactly once, not before
\* the delay has elapsed since the last invocation, with the last
\* invocation's arguments (exactly once: at most once ever, and once when no
\* timer is left pending).
C6_BurstExecutesOnce ==
    (calls # <<>> /\ IsBurst) =>
        /\ Len(execs) <= 1
        /\ \A k \in 1..Len(execs) :
              /\ execs[k].call = Len(calls)
              /\ execs[k].args = Last(calls).args
              /\ execs[k].time >= Last(calls).time + Delay
        /\ timers = {} => Len(execs) = 1

\* C6 witness: a burst of at least two invocations with different arguments
\* whose execution has happened
C6_Witness ==
    /\ Len(calls) >= 2 /\ IsBurst
    /\ calls[1].args # calls[2].args
    /\ Len(execs) = 1

\* C10: the promise of an invocation superseded before its delay elapsed is
\* never settled; of a burst only the last invocation's promise settles, and
\* it resolves to the wrapped function's result on the last arguments.
C10_SupersededNeverSettles ==
    /\ \A i \in 1..(Len(calls) - 1) :
          calls[i + 1].time < calls[i].time + Delay => promises[i] = Pending
    /\ IsBurst =>
          \A i \in 1..Len(calls) : promises[i] # Pending =>
              /\ i = Len(calls)
              /\ promises[i] = Resolved(fn(Last(calls).args))

\* C10 witness: a burst whose last promise has resolved while the promise of
\* the superseded first invocation is still pending
C10_Witness ==
    /\ Len(calls) >= 2 /\ IsBurst
    /\ calls[1].args # Last(calls).args
    /\ promises[1] = Pending
    /\ promises[Len(calls)] # Pending

(***************************************************************************)
(*            Properties of computeClimbingPercentsAndColors               *)
(***************************************************************************)

\* the number of records in which discipline d is true
TrueCount(d) ==
    Cardinality({i \in 1..Len(climbs) :
        \E j \in 1..Len(climbs[i]) : climbs[i][j].key = d /\ climbs[i][j].val})

RECURSIVE SumTrue(_)
SumTrue(D) ==
    IF D = {} THEN 0
    ELSE LET d == CHOOSE x \in D : TRUE IN TrueCount(d) + SumTrue(D \ {d})

\* the true flags over all records and disciplines
TotalTrue == SumTrue(Disciplines)

\* x + y in doubles
FloatAdd(x, y) ==
    IF x.m = <<>> THEN y
    ELSE IF y.m = <<>> THEN x
    ELSE LET emin == IF x.e < y.e THEN x.e ELSE y.e IN
         RoundToDouble(BigAdd(BigShl(x.m, x.e - emin), BigShl(y.m, y.e - emin)),
                       FALSE, emin)

\* ps.reduce((a, b) => a + b, 0): the sum as JavaScript computes it
RECURSIVE FloatSumFrom(_, _)
FloatSumFrom(acc, ps) ==
    IF ps = <<>> THEN acc ELSE FloatSumFrom(FloatAdd(acc, Head(ps)), Tail(ps))

FloatSum(ps) == FloatSumFrom([m |-> <<>>, e |-> 0], ps)

\* the exact value of a double, in units of 2^-60
Scaled(x) == BigShl(x.m, x.e + 60)

\* the exact value of the natural n, in units of 2^-60
ScaledInt(n) == BigShl(BigFromInt(n), 60)

\* the exact sum of the values of a sequence of doubles, in units of 2^-60
RECURSIVE ExactSum(_)
ExactSum(ps) ==
    IF ps = <<>> THEN <<>> ELSE BigAdd(Scaled(Head(ps)), ExactSum(Tail(ps)))

\* the structure of the result: parallel sequences, one entry per distinct
\* discipline that is true in at least one record
OneEntryPerDiscipline ==
    LET ps == pcOut.value.percents
        cs == pcOut.value.colors
    IN  /\ Len(cs) = Len(ps) /\ Len(typeToCount) = Len(ps)
        /\ Len(ps) = Cardinality({d \in Disciplines : TrueCount(d) > 0})
        /\ {typeToCount[i].key : i \in 1..Len(ps)} =
              {d \in Disciplines : TrueCount(d) > 0}
        /\ \A i \in 1..Len(ps) : cs[i] = ClimbTypeToColor(typeToCount[i].key)

\* C7 as stated: one entry per distinct true discipline, and whenever the
\* total true-flag count is non-zero the percentages sum to 100 (whether
\* summed exactly or as JavaScript sums them).
C7_PercentsSumTo100 ==
    pcOut.done =>
        /\ OneEntryPerDiscipline
        /\ TotalTrue # 0 =>
              \/ ExactSum(pcOut.value.percents) = ScaledInt(100)
              \/ Scaled(FloatSum(pcOut.value.percents)) = ScaledInt(100)

\* C7 amended: one entry per distinct true discipline; percents[i] is the
\* discipline's true-flag count over the total true-flag count of all records
\* and disciplines, times 100, as computed in doubles (within a relative
\* error of 2^-51 of the exact quotient); whenever the total is non-zero the
\* exact sum of the returned percentages lies within 2^-44 of 100.
C7_PercentsOfTotalTrueFlags ==
    pcOut.done =>
        LET ps == pcOut.value.percents IN
        /\ OneEntryPerDiscipline
        /\ \A i \in 1..Len(ps) :
              LET c == TrueCount(typeToCount[i].key) IN
              BigCmp(BigDist(BigMulSmall(Scaled(ps[i]), TotalTrue),
                             ScaledInt(100 * c)),
                     BigShl(BigFromInt(100 * c), 9)) <= 0
        /\ TotalTrue # 0 =>
              BigCmp(BigDist(ExactSum(ps), ScaledInt(100)),
                     BigShl(<<1>>, 16)) <= 0

\* C7 witness: a computed result over a record with several true flags and a
\* record with none
C7_Witness ==
    /\ pcOut.done
    /\ Len(pcOut.value.percents) >= 2
    /\ \E i \in 1..Len(climbs) :
          Cardinality({j \in 1..Len(climbs[i]) : climbs[i][j].val}) >= 2
    /\ \E i \in 1..Len(climbs) : \A j \in 1..Len(climbs[i]) : ~climbs[i][j].val

(***************************************************************************)
(*                      Properties of sanitizeName                         *)
(***************************************************************************)

\* C8: sanitizeName removes at most one decorative token and only at the very
\* start of the string: an input that does not begin with a token comes back
\* unchanged; an input that does comes back without exactly that leading token.
C8_OnlyLeadingTokenRemoved ==
    sOut # NotComputed =>
        IF MatchLenAt(s, 1) > 0
        THEN sOut = SubSeq(s, MatchLenAt(s, 1) + 1, Len(s))
        ELSE sOut = s

====
